---- MODULE Spec2Model ----
(***************************************************************************)
(* Null-aware compute kernels on primitive arrays: the arithmetic kernels  *)
(* of compute/arithmetics/mod.rs and the gather kernel of                  *)
(* compute/take/primitive.rs.                                              *)
(*                                                                         *)
(* A primitive array is a record [data_type, values, validity]; validity   *)
(* is an Option: <<>> is None (no bitmap, every slot valid), <<bits>> is   *)
(* Some(bits).  A call ends in one of three ways: it returns Ok(array),    *)
(* it returns Err(kind, message), or it panics.                            *)
(*                                                                         *)
(* Element types are the 8-bit integers (Int8, UInt8).  +, -, * and        *)
(* negation wrap modulo 2^Bits (the behaviour without overflow checks);    *)
(* the signed division MIN / -1 panics, as the `/` operator does in every  *)
(* build.                                                                  *)
(***************************************************************************)
EXTENDS Integers, Sequences, FiniteSets, TLC

VARIABLES fn, args, result

vars == <<fn, args, result>>

\* Longest array drawn as an input.
MaxLen == 2

\* Width of the modelled element types, Int8 and UInt8.
Bits == 8

Modulus == 2 ^ Bits

MinInt8 == 0 - (Modulus \div 2)

MaxInt8 == (Modulus \div 2) - 1

----------------------------------------------------------------------------
(* Options, results, arrays *)

None == <<>>

Some(x) == <<x>>

Ok(a) == [kind |-> "ok", array |-> a]

Err(e, m) == [kind |-> "err", error |-> e, msg |-> m]

Panic(m) == [kind |-> "panic", msg |-> m]

NoResult == [kind |-> "none"]

from_data(data_type, values, validity) ==
    [data_type |-> data_type, values |-> values, validity |-> validity]

len(a) == Len(a.values)

\* T::default() of an integer type
default == 0

\* Bitmap::get_bit inside the bitmap.
bit(bitmap, i) == bitmap[i + 1]

\* Whether slot i (0-based) of the array is valid; no bitmap = all valid.
is_valid(a, i) == a.validity = None \/ bit(a.validity[1], i)

null_count(a) ==
    IF a.validity = None THEN 0
    ELSE Cardinality({i \in 0..(len(a) - 1) : ~bit(a.validity[1], i)})

\* Bitmap::get_bit as a caller sees it.  Inside the bitmap it is the bit.
\* Past the end the lookup is outside the contract: it may fault on the
\* byte access or read a stale padding bit of either value.
get_bit(bitmap, i) ==
    IF i < Len(bitmap) THEN {[panicked |-> FALSE, b |-> bit(bitmap, i)]}
    ELSE {[panicked |-> TRUE, b |-> FALSE],
          [panicked |-> FALSE, b |-> TRUE],
          [panicked |-> FALSE, b |-> FALSE]}

\* maybe_usize: conversion of a stored index to a platform index.
maybe_usize(index) ==
    IF index < 0 THEN Err("IndexConversionOverflow", "index does not fit usize")
    ELSE [kind |-> "ok", index |-> index]

----------------------------------------------------------------------------
(* Buffer construction from a fallible iterator *)

\* One element produced by a kernel closure: a value (with the validity bit
\* the closure pushed, where it builds a bitmap).
Item(v, b) == [kind |-> "ok", v |-> v, b |-> b]

\* try_from_trusted_len_iter: items are consumed in order; the first error
\* (or panic) ends the call and nothing is returned for the rest.  `items`
\* is a sequence of sets: the possible outcomes of each element.  The result
\* is the set of possible outcomes of the whole pass; a complete pass yields
\* [kind |-> "ok", v |-> values, b |-> pushed bits].
RECURSIVE try_from_trusted_len_iter(_)
try_from_trusted_len_iter(items) ==
    IF items = <<>> THEN {[kind |-> "ok", v |-> <<>>, b |-> <<>>]}
    ELSE UNION {
        IF o.kind = "ok"
        THEN { IF r.kind = "ok"
               THEN [kind |-> "ok", v |-> <<o.v>> \o r.v, b |-> <<o.b>> \o r.b]
               ELSE r : r \in try_from_trusted_len_iter(Tail(items)) }
        ELSE {o} : o \in Head(items) }

----------------------------------------------------------------------------
(* compute/take/primitive.rs *)

\* values[index] on a slice: a bounds-checked read.
index_slice(values, index) ==
    IF index < Len(values) THEN Item(values[index + 1], TRUE)
    ELSE Panic("index out of bounds")

\* Mutant of take_no_validity: the conversion is unwrapped, so a stored
\* integer that does not convert panics instead of returning the error.
take_no_validity_unwrap(values, indices) ==
    LET item(i) ==
            LET index == maybe_usize(indices[i])
            IN  IF index.kind = "err" THEN {Panic("called unwrap on an Err value")}
                ELSE {index_slice(values, index.index)}
        buffers == try_from_trusted_len_iter([i \in 1..Len(indices) |-> item(i)])
    IN  { IF r.kind = "ok" THEN [kind |-> "ok", buffer |-> r.v, nulls |-> None]
          ELSE r : r \in buffers }

\* take implementation when neither values nor indices contain nulls
take_no_validity(values, indices) ==
    LET item(i) ==
            LET index == maybe_usize(indices[i])
            IN  IF index.kind = "err" THEN {index}
                ELSE {index_slice(values, index.index)}
        buffers == try_from_trusted_len_iter([i \in 1..Len(indices) |-> item(i)])
    IN  { IF r.kind = "ok" THEN [kind |-> "ok", buffer |-> r.v, nulls |-> None]
          ELSE r : r \in buffers }

\* take implementation when only values contain nulls
take_values_validity(values, indices) ==
    LET null_values == values.validity[1]
        values_values == values.values
        item(i) ==
            LET index == maybe_usize(indices[i])
            IN  IF index.kind = "err" THEN {index}
                ELSE { IF g.panicked THEN Panic("bitmap index out of bounds")
                       ELSE LET read == index_slice(values_values, index.index)
                            IN  IF read.kind = "ok" THEN Item(read.v, g.b)
                                ELSE read
                       : g \in get_bit(null_values, index.index) }
        buffers == try_from_trusted_len_iter([i \in 1..Len(indices) |-> item(i)])
    IN  { IF r.kind = "ok" THEN [kind |-> "ok", buffer |-> r.v, nulls |-> Some(r.b)]
          ELSE r : r \in buffers }

\* take implementation when only indices contain nulls.  The closure runs
\* over indices.values(), the stored integer of every slot, null or not; a
\* position outside values looks up the indices bitmap at that position
\* (the converted index, not the slot).
take_indices_validity(values, indices) ==
    LET null_indices == indices.validity[1]
        item(i) ==
            LET index == maybe_usize(indices.values[i])
            IN  IF index.kind = "err" THEN {index}
                ELSE IF index.index < Len(values)
                THEN {Item(values[index.index + 1], TRUE)}
                ELSE { IF g.panicked THEN Panic("bitmap index out of bounds")
                       ELSE IF g.b THEN Panic("Out-of-bounds index")
                       ELSE Item(default, FALSE)
                       : g \in get_bit(null_indices, index.index) }
        buffers == try_from_trusted_len_iter([i \in 1..len(indices) |-> item(i)])
    IN  { IF r.kind = "ok"
          THEN [kind |-> "ok", buffer |-> r.v, nulls |-> indices.validity]
          ELSE r : r \in buffers }

\* take implementation when both values and indices contain nulls.
\* indices.iter() yields None for a null slot, without its stored integer.
take_values_indices_validity(values, indices) ==
    LET values_validity == values.validity[1]
        values_values == values.values
        item(i) ==
            IF is_valid(indices, i - 1)
            THEN LET index == maybe_usize(indices.values[i])
                 IN  IF index.kind = "err" THEN {index}
                     ELSE { IF g.panicked THEN Panic("bitmap index out of bounds")
                            ELSE LET read == index_slice(values_values, index.index)
                                 IN  IF read.kind = "ok" THEN Item(read.v, g.b)
                                     ELSE read
                            : g \in get_bit(values_validity, index.index) }
            ELSE {Item(default, FALSE)}
        buffers == try_from_trusted_len_iter([i \in 1..len(indices) |-> item(i)])
    IN  { IF r.kind = "ok" THEN [kind |-> "ok", buffer |-> r.v, nulls |-> Some(r.b)]
          ELSE r : r \in buffers }

\* `take` implementation for primitive arrays: the set of possible outcomes.
take(values, indices) ==
    LET indices_has_validity == null_count(indices) > 0
        values_has_validity == null_count(values) > 0
        parts ==
            CASE ~values_has_validity /\ ~indices_has_validity ->
                    take_no_validity(values.values, indices.values)
              [] values_has_validity /\ ~indices_has_validity ->
                    take_values_validity(values, indices.values)
              [] ~values_has_validity /\ indices_has_validity ->
                    take_indices_validity(values.values, indices)
              [] values_has_validity /\ indices_has_validity ->
                    take_values_indices_validity(values, indices)
    IN  { IF p.kind = "ok"
          THEN Ok(from_data(values.data_type, p.buffer, p.nulls))
          ELSE p : p \in parts }

----------------------------------------------------------------------------
(* Native arithmetic of the element type T *)

\* The value a closure returns, or the unwinding of a panic inside it.
Val(x) == [panicked |-> FALSE, v |-> x]

Unwind == [panicked |-> TRUE, v |-> 0]

Signed(data_type) == data_type = "Int8"

\* Two's complement representation in Bits bits.
Wrap(data_type, x) ==
    IF Signed(data_type) THEN ((x - MinInt8) % Modulus) + MinInt8
    ELSE x % Modulus

Abs(x) == IF x < 0 THEN 0 - x ELSE x

\* a / b of the integers: the quotient rounded towards zero.
TruncDiv(a, b) ==
    IF (a < 0) = (b < 0) THEN Abs(a) \div Abs(b)
    ELSE 0 - (Abs(a) \div Abs(b))

\* a + b
add_T(data_type, a, b) == Val(Wrap(data_type, a + b))

\* a - b
sub_T(data_type, a, b) == Val(Wrap(data_type, a - b))

\* a * b
mul_T(data_type, a, b) == Val(Wrap(data_type, a * b))

\* -a
neg_T(data_type, a) == Val(Wrap(data_type, 0 - a))

\* a / b: panics on a zero divisor and on the one quotient that does not fit.
div_T(data_type, a, b) ==
    IF b = 0 THEN Unwind
    ELSE IF Signed(data_type) /\ a = MinInt8 /\ b = 0 - 1 THEN Unwind
    ELSE Val(TruncDiv(a, b))

\* x.pow(exponent) of an unsigned integer, by repeated squaring.
RECURSIVE pow_T(_, _, _)
pow_T(data_type, x, exponent) ==
    IF exponent = 0 THEN Val(1)
    ELSE LET half == pow_T(data_type, Wrap(data_type, x * x), exponent \div 2).v
         IN  Val(Wrap(data_type, IF exponent % 2 = 1 THEN x * half ELSE half))

\* Zero::is_zero
is_zero(x) == x = 0

----------------------------------------------------------------------------
(* compute/utils.rs and compute/arity.rs *)

combine_validities(lhs, rhs) ==
    CASE lhs = None /\ rhs = None -> None
      [] lhs # None /\ rhs = None -> lhs
      [] lhs = None /\ rhs # None -> rhs
      [] OTHER -> Some([i \in 1..Len(lhs[1]) |-> lhs[1][i] /\ rhs[1][i]])

\* The stored values of an array: what a closure over its slots is applied to.
stored(a) == {a.values[i] : i \in 1..len(a)}

\* binary(lhs, rhs, op): op on every pair of stored values, null slots
\* included; the validity is the combination of the operands'.  A closure
\* is a function on the stored values.
binary(lhs, rhs, op) ==
    IF len(lhs) # len(rhs)
    THEN Err("InvalidArgumentError", "Arrays must have the same length")
    ELSE LET validity == combine_validities(lhs.validity, rhs.validity)
             out == [i \in 1..len(lhs) |-> op[lhs.values[i], rhs.values[i]]]
         IN  IF \E i \in 1..len(lhs) : out[i].panicked
             THEN Panic("arithmetic operation panicked")
             ELSE Ok(from_data(lhs.data_type,
                               [i \in 1..len(lhs) |-> out[i].v], validity))

\* unary(array, op, data_type): op on every stored value, null slots
\* included; the validity is the array's own.
unary(array, op, data_type) ==
    LET out == [i \in 1..len(array) |-> op[array.values[i]]]
    IN  IF \E i \in 1..len(array) : out[i].panicked
        THEN Panic("arithmetic operation panicked")
        ELSE Ok(from_data(data_type,
                          [i \in 1..len(array) |-> out[i].v], array.validity))

----------------------------------------------------------------------------
(* compute/arithmetics/mod.rs *)

Operator == {"Add", "Subtract", "Multiply", "Divide"}

LengthError ==
    Err("InvalidArgumentError",
        "Cannot perform math operation on arrays of different length")

ZeroError ==
    Err("InvalidArgumentError",
        "There is a zero in the division, causing a division by zero")

\* Mutant of divide: the length check is missing, and the pass runs over the
\* zipped (shorter) length.
divide_without_length_check(lhs, rhs) ==
    LET n == IF len(lhs) < len(rhs) THEN len(lhs) ELSE len(rhs)
        valid(i) == is_valid(lhs, i - 1) /\ is_valid(rhs, i - 1)
        quotient(i) ==
            LET q == div_T(lhs.data_type, lhs.values[i], rhs.values[i])
            IN  IF q.panicked THEN Panic("attempt to divide with overflow")
                ELSE Item(q.v, TRUE)
        item(i) ==
            IF valid(i)
            THEN IF is_zero(rhs.values[i]) THEN ZeroError ELSE quotient(i)
            ELSE Item(default, TRUE)
        values == CHOOSE r \in
            try_from_trusted_len_iter([i \in 1..n |-> {item(i)}]) : TRUE
    IN  IF values.kind = "ok"
        THEN Ok(from_data(lhs.data_type, values.v,
                          IF lhs.validity = None /\ rhs.validity = None THEN None
                          ELSE Some([i \in 1..n |-> valid(i)])))
        ELSE values

\* Divide two arrays.
divide(lhs, rhs) ==
    IF len(lhs) # len(rhs) THEN LengthError
    ELSE
    LET validity == combine_validities(lhs.validity, rhs.validity)
        quotient(i) ==
            LET q == div_T(lhs.data_type, lhs.values[i], rhs.values[i])
            IN  IF q.panicked THEN Panic("attempt to divide with overflow")
                ELSE Item(q.v, TRUE)
        item(i) ==
            IF validity # None
            THEN \* there are nulls. Division by zero on them should be ignored
                 IF bit(validity[1], i - 1)
                 THEN IF is_zero(rhs.values[i]) THEN ZeroError ELSE quotient(i)
                 ELSE Item(default, TRUE)
            ELSE \* no value is null
                 IF is_zero(rhs.values[i]) THEN ZeroError ELSE quotient(i)
        values == CHOOSE r \in
            try_from_trusted_len_iter([i \in 1..len(lhs) |-> {item(i)}]) : TRUE
    IN  IF values.kind = "ok"
        THEN Ok(from_data(lhs.data_type, values.v, validity))
        ELSE values

\* Divide an array by a constant
divide_scalar(array, divisor) ==
    IF is_zero(divisor)
    THEN Err("InvalidArgumentError", "The divisor cannot be zero")
    ELSE unary(array, [x \in stored(array) |-> div_T(array.data_type, x, divisor)],
               array.data_type)

add(lhs, rhs) ==
    binary(lhs, rhs, [a \in stored(lhs), b \in stored(rhs) |-> add_T(lhs.data_type, a, b)])

add_scalar(lhs, rhs) ==
    unary(lhs, [a \in stored(lhs) |-> add_T(lhs.data_type, a, rhs)], lhs.data_type)

\* Mutant of subtract: the operands of the closure are swapped.
subtract_swapped(lhs, rhs) ==
    binary(lhs, rhs, [a \in stored(lhs), b \in stored(rhs) |-> sub_T(lhs.data_type, b, a)])

subtract(lhs, rhs) ==
    binary(lhs, rhs, [a \in stored(lhs), b \in stored(rhs) |-> sub_T(lhs.data_type, a, b)])

subtract_scalar(lhs, rhs) ==
    unary(lhs, [a \in stored(lhs) |-> sub_T(lhs.data_type, a, rhs)], lhs.data_type)

\* Mutant of negate: a saturating negation (the minimum becomes the maximum).
negate_saturating(array) ==
    unary(array,
          [a \in stored(array) |->
              IF a = MinInt8 THEN Val(MaxInt8) ELSE neg_T(array.data_type, a)],
          array.data_type)

negate(array) ==
    unary(array, [a \in stored(array) |-> neg_T(array.data_type, a)],
          array.data_type)

powf_scalar(array, exponent) ==
    unary(array, [x \in stored(array) |-> pow_T(array.data_type, x, exponent)],
          array.data_type)

multiply(lhs, rhs) ==
    binary(lhs, rhs, [a \in stored(lhs), b \in stored(rhs) |-> mul_T(lhs.data_type, a, b)])

multiply_scalar(lhs, rhs) ==
    unary(lhs, [a \in stored(lhs) |-> mul_T(lhs.data_type, a, rhs)], lhs.data_type)

arithmetic_primitive(lhs, op, rhs) ==
    CASE op = "Add" -> add(lhs, rhs)
      [] op = "Subtract" -> subtract(lhs, rhs)
      [] op = "Multiply" -> multiply(lhs, rhs)
      [] op = "Divide" -> divide(lhs, rhs)

arithmetic_primitive_scalar(lhs, op, rhs) ==
    CASE op = "Add" -> add_scalar(lhs, rhs)
      [] op = "Subtract" -> subtract_scalar(lhs, rhs)
      [] op = "Multiply" -> multiply_scalar(lhs, rhs)
      [] op = "Divide" -> divide_scalar(lhs, rhs)

\* Logical types with an arithmetic kernel (the 8-bit ones stand for all).
SupportedTypes == {"Int8", "UInt8"}

\* Mutant of arithmetic: a type mismatch is reported as an invalid argument.
arithmetic_invalid_argument(lhs, op, rhs) ==
    LET data_type == lhs.data_type
    IN  IF data_type # rhs.data_type
        THEN Err("InvalidArgumentError",
                 "Arithmetic is currently only supported for arrays of the same logical type")
        ELSE CASE data_type \in SupportedTypes -> arithmetic_primitive(lhs, op, rhs)
               [] data_type = "Float16" -> Panic("unreachable")
               [] OTHER -> Err("NotYetImplemented", "Arithmetics is not supported")

arithmetic(lhs, op, rhs) ==
    LET data_type == lhs.data_type
    IN  IF data_type # rhs.data_type
        THEN Err("NotYetImplemented",
                 "Arithmetic is currently only supported for arrays of the same logical type")
        ELSE CASE data_type \in SupportedTypes -> arithmetic_primitive(lhs, op, rhs)
               [] data_type = "Float16" -> Panic("unreachable")
               [] OTHER -> Err("NotYetImplemented", "Arithmetics is not supported")


----------------------------------------------------------------------------
(* Inputs *)

Seqs(S, n) == [1..n -> S]

\* Primitive arrays of at most MaxLen slots whose stored values (null slots
\* included: a null slot stores an arbitrary value) come from `samples`.
PrimitiveArrays(data_type, samples) ==
    UNION { { from_data(data_type, v, b) :
                v \in Seqs(samples, n),
                b \in {None} \cup {Some(m) : m \in Seqs(BOOLEAN, n)} } :
            n \in 0..MaxLen }

\* Stored values of the gathered array: distinct and none the default.
TakeSamples == {5, 7}

\* Stored indices: not convertible (-1), and from 0 up to MaxLen, which is
\* outside every values array and every indices bitmap.
IndexSamples == (0 - 1)..MaxLen

\* Stored values of a signed operand: the minimum, -1, zero, and a value
\* that divides neither.
Int8Samples == {MinInt8, 0 - 1, 0, 3}

\* Stored values of an unsigned operand: zero, a small value, the maximum.
UInt8Samples == {0, 3, Modulus - 1}

Samples(data_type) == IF Signed(data_type) THEN Int8Samples ELSE UInt8Samples

----------------------------------------------------------------------------
(* Array (op) array kernels *)

InitBinary ==
    /\ fn = "ready"
    /\ result = NoResult
    /\ \E data_type \in SupportedTypes :
        \E lhs \in PrimitiveArrays(data_type, Samples(data_type)),
           rhs \in PrimitiveArrays(data_type, Samples(data_type)) :
            args = [lhs |-> lhs, rhs |-> rhs]

Add ==
    /\ fn = "ready"
    /\ fn' = "add"
    /\ result' = add(args.lhs, args.rhs)
    /\ UNCHANGED args

Subtract ==
    /\ fn = "ready"
    /\ fn' = "subtract"
    /\ result' = subtract(args.lhs, args.rhs)
    /\ UNCHANGED args

Multiply ==
    /\ fn = "ready"
    /\ fn' = "multiply"
    /\ result' = multiply(args.lhs, args.rhs)
    /\ UNCHANGED args

Divide ==
    /\ fn = "ready"
    /\ fn' = "divide"
    /\ result' = divide(args.lhs, args.rhs)
    /\ UNCHANGED args

NextBinary == Add \/ Subtract \/ Multiply \/ Divide

SpecBinary == InitBinary /\ [][NextBinary]_vars

----------------------------------------------------------------------------
(* Array (op) scalar kernels and negate *)

InitUnary ==
    /\ fn = "ready"
    /\ result = NoResult
    /\ \E data_type \in SupportedTypes :
        \E array \in PrimitiveArrays(data_type, Samples(data_type)),
           scalar \in Samples(data_type) :
            args = [array |-> array, scalar |-> scalar]

AddScalar ==
    /\ fn = "ready"
    /\ fn' = "add_scalar"
    /\ result' = add_scalar(args.array, args.scalar)
    /\ UNCHANGED args

SubtractScalar ==
    /\ fn = "ready"
    /\ fn' = "subtract_scalar"
    /\ result' = subtract_scalar(args.array, args.scalar)
    /\ UNCHANGED args

MultiplyScalar ==
    /\ fn = "ready"
    /\ fn' = "multiply_scalar"
    /\ result' = multiply_scalar(args.array, args.scalar)
    /\ UNCHANGED args

DivideScalar ==
    /\ fn = "ready"
    /\ fn' = "divide_scalar"
    /\ result' = divide_scalar(args.array, args.scalar)
    /\ UNCHANGED args

\* T: Neg, a signed type.
Negate ==
    /\ fn = "ready"
    /\ Signed(args.array.data_type)
    /\ fn' = "negate"
    /\ result' = negate(args.array)
    /\ UNCHANGED args

\* negate applied to the array a first negate returned.
NegateAgain ==
    /\ fn = "negate"
    /\ result.kind = "ok"
    /\ fn' = "negate_negate"
    /\ result' = negate(result.array)
    /\ UNCHANGED args

\* T: Pow<T>, an unsigned integer type.
PowfScalar ==
    /\ fn = "ready"
    /\ ~Signed(args.array.data_type)
    /\ fn' = "powf_scalar"
    /\ result' = powf_scalar(args.array, args.scalar)
    /\ UNCHANGED args

NextUnary ==
    \/ AddScalar
    \/ SubtractScalar
    \/ MultiplyScalar
    \/ DivideScalar
    \/ Negate
    \/ NegateAgain
    \/ PowfScalar

SpecUnary == InitUnary /\ [][NextUnary]_vars

----------------------------------------------------------------------------
(* Dispatch by logical type: arithmetic(lhs, op, rhs) *)

\* Logical types of the operands: two with a kernel, one without.
LogicalTypes == SupportedTypes \cup {"Boolean"}

DispatchSamples == {0, 3}

InitDispatch ==
    /\ fn = "ready"
    /\ result = NoResult
    /\ \E lhs_type \in LogicalTypes, rhs_type \in LogicalTypes, op \in Operator :
        \E lhs \in PrimitiveArrays(lhs_type, DispatchSamples),
           rhs \in PrimitiveArrays(rhs_type, DispatchSamples) :
            args = [lhs |-> lhs, op |-> op, rhs |-> rhs]

Arithmetic ==
    /\ fn = "ready"
    /\ fn' = "arithmetic"
    /\ result' = arithmetic(args.lhs, args.op, args.rhs)
    /\ UNCHANGED args

NextDispatch == Arithmetic

SpecDispatch == InitDispatch /\ [][NextDispatch]_vars

----------------------------------------------------------------------------
(* Gather: take(values, indices) *)

InitTake ==
    /\ fn = "ready"
    /\ result = NoResult
    /\ \E values \in PrimitiveArrays("Int8", TakeSamples),
          indices \in PrimitiveArrays("Int32", IndexSamples) :
            args = [values |-> values, indices |-> indices]

Take ==
    /\ fn = "ready"
    /\ fn' = "take"
    /\ result' \in take(args.values, args.indices)
    /\ UNCHANGED args

NextTake == Take

SpecTake == InitTake /\ [][NextTake]_vars

----------------------------------------------------------------------------
(* Claims about take *)

\* Slots (1-based) of the index array that are null / valid.
NullSlots(indices) == {i \in 1..len(indices) : ~is_valid(indices, i - 1)}

ValidSlots(indices) == {i \in 1..len(indices) : is_valid(indices, i - 1)}

\* A valid slot whose stored integer converts and lies outside values.
OutOfRangeValidSlots(values, indices) ==
    {i \in ValidSlots(indices) :
        indices.values[i] >= 0 /\ indices.values[i] >= len(values)}

\* Every valid slot converts to a position inside values.
ValidSlotsInBounds(values, indices) ==
    \A i \in ValidSlots(indices) :
        indices.values[i] >= 0 /\ indices.values[i] < len(values)

\* C2: a null index slot gives a null output slot and causes neither a fault
\* nor an error, whatever integer it stores: when every valid slot is
\* convertible and in bounds (so nothing but a null slot could be blamed),
\* take returns an array, null at every null index slot.
C2_NullIndexSlotIsHarmless ==
    (fn = "take" /\ NullSlots(args.indices) # {}
        /\ ValidSlotsInBounds(args.values, args.indices))
    => /\ result.kind = "ok"
       /\ \A i \in NullSlots(args.indices) : ~is_valid(result.array, i - 1)

\* C3: a valid index slot whose converted position is outside values never
\* lets take return a result array (the claim's weakest part: it asks for a
\* panic; a returned array with the default in that slot contradicts it).
C3_OutOfRangeValidIndexNeverReturnsArray ==
    (fn = "take" /\ OutOfRangeValidSlots(args.values, args.indices) # {})
    => result.kind # "ok"

\* C4: when every valid index slot converts to a position inside values,
\* take succeeds; the result has the length of indices; slot i is null iff
\* the index slot is null or the gathered slot of values is null, and else
\* holds values.value(indices[i]); with no nulls in either input the result
\* has no bitmap, with nulls in indices only it has the indices' validity.
C4_TakeGathers ==
    (fn = "take" /\ ValidSlotsInBounds(args.values, args.indices))
    => /\ result.kind = "ok"
       /\ len(result.array) = len(args.indices)
       /\ \A i \in 1..len(args.indices) :
            LET null_index == ~is_valid(args.indices, i - 1)
            IN  /\ ~is_valid(result.array, i - 1)
                    <=> (null_index \/ ~is_valid(args.values, args.indices.values[i]))
                /\ is_valid(result.array, i - 1)
                    => result.array.values[i]
                        = args.values.values[args.indices.values[i] + 1]
       /\ (null_count(args.values) = 0 /\ null_count(args.indices) = 0)
            => result.array.validity = None
       /\ (null_count(args.values) = 0 /\ null_count(args.indices) > 0)
            => result.array.validity = args.indices.validity

\* Valid slots whose stored integer does not convert to a platform index,
\* with no earlier slot (of either validity) storing an integer that
\* converts to a position outside values.
UnconvertibleValidSlots(values, indices) ==
    {i \in ValidSlots(indices) :
        /\ indices.values[i] < 0
        /\ \A j \in 1..(i - 1) : indices.values[j] < len(values)}

----------------------------------------------------------------------------
(* Claims about the array (op) array kernels *)

\* The values of an element type.
TypeRange(data_type) ==
    IF Signed(data_type) THEN MinInt8..MaxInt8 ELSE 0..(Modulus - 1)

\* r is the representation of the integer x in the element type.
Represents(data_type, r, x) ==
    r \in TypeRange(data_type) /\ (r - x) % Modulus = 0

\* q is the quotient a / b rounded towards zero.
IsQuotient(q, a, b) ==
    LET r == a - q * b
    IN  Abs(r) < Abs(b) /\ (r = 0 \/ (r < 0) = (a < 0))

\* Slot i (1-based) is non-null in both operands.
BothValid(i) == is_valid(args.lhs, i - 1) /\ is_valid(args.rhs, i - 1)

\* A zero divisor at a slot that is non-null in both operands.
ValidZeroDivisor ==
    \E i \in 1..len(args.lhs) : BothValid(i) /\ args.rhs.values[i] = 0

\* C1: divide(a, b) on equal lengths errs iff some slot is non-null in both
\* operands and holds a zero divisor; otherwise it succeeds, slot i is null
\* iff a[i] or b[i] is null, and else holds a.value(i) / b.value(i).
C1_DivideErrsIffValidZeroDivisor ==
    (fn = "divide" /\ len(args.lhs) = len(args.rhs))
    => /\ result.kind = "err" <=> ValidZeroDivisor
       /\ ~ValidZeroDivisor
            => /\ result.kind = "ok"
               /\ len(result.array) = len(args.lhs)
               /\ \A i \in 1..len(args.lhs) :
                    /\ is_valid(result.array, i - 1) <=> BothValid(i)
                    /\ BothValid(i)
                        => IsQuotient(result.array.values[i],
                                      args.lhs.values[i], args.rhs.values[i])

C6_LengthMismatchIsInvalidArgument ==
    (fn \in {"add", "subtract", "multiply", "divide"}
        /\ len(args.lhs) # len(args.rhs))
    => /\ result.kind = "err"
       /\ result.error = "InvalidArgumentError"
       /\ fn = "divide" => result = LengthError

\* C6 witness: a divide on different lengths whose divisor holds a valid zero
\* opposite a valid dividend.
C6_Witness ==
    /\ fn = "divide"
    /\ len(args.lhs) > len(args.rhs)
    /\ len(args.rhs) > 0
    /\ BothValid(1)
    /\ args.rhs.values[1] = 0
    /\ result.kind = "err"

----------------------------------------------------------------------------
(* Claims about the array (op) scalar kernels and negate *)

\* C7: divide_scalar(a, d) returns an invalid-argument error whenever d is
\* zero, for every a, and succeeds whenever d is not zero.
C7_DivideScalar ==
    fn = "divide_scalar"
    => /\ args.scalar = 0
            => result = Err("InvalidArgumentError", "The divisor cannot be zero")
       /\ args.scalar # 0 => result.kind = "ok"

RECURSIVE ModPow(_, _)
ModPow(x, exponent) ==
    CASE exponent = 0 -> 1
      [] exponent = 1 -> x % Modulus
      [] OTHER -> (ModPow(x, exponent \div 2)
                    * ModPow(x, exponent - (exponent \div 2))) % Modulus

UnaryKernels ==
    {"add_scalar", "subtract_scalar", "multiply_scalar", "divide_scalar",
     "negate", "powf_scalar"}

\* C10: every unary kernel (divide_scalar with a non-zero divisor) returns an
\* array of the input's length and logical type with exactly the input's
\* validity, holding at each non-null slot the operator applied to the input
\* value and the scalar.
C10_UnaryKernels ==
    (fn \in UnaryKernels /\ (fn = "divide_scalar" => args.scalar # 0))
    => /\ result.kind = "ok"
       /\ len(result.array) = len(args.array)
       /\ result.array.data_type = args.array.data_type
       /\ result.array.validity = args.array.validity
       /\ \A i \in 1..len(args.array) :
            LET a == args.array.values[i]
                r == result.array.values[i]
                data_type == args.array.data_type
            IN  is_valid(args.array, i - 1)
                => CASE fn = "add_scalar" -> Represents(data_type, r, a + args.scalar)
                     [] fn = "subtract_scalar" -> Represents(data_type, r, a - args.scalar)
                     [] fn = "multiply_scalar" -> Represents(data_type, r, a * args.scalar)
                     [] fn = "divide_scalar" -> IsQuotient(r, a, args.scalar)
                     [] fn = "negate" -> Represents(data_type, r, 0 - a)
                     [] fn = "powf_scalar" -> r = ModPow(a, args.scalar)

----------------------------------------------------------------------------
(* Claims about the dispatch *)

\* C8 as stated: arithmetic on operands of different logical types returns
\* an error of the invalid-argument kind.
C8_TypeMismatchIsInvalidArgument ==
    (fn = "arithmetic" /\ args.lhs.data_type # args.rhs.data_type)
    => /\ result.kind = "err"
       /\ result.error = "InvalidArgumentError"

\* C8 as amended: arithmetic on operands of different logical types returns
\* an error of the not-yet-implemented kind, the kind it also returns for
\* operands of one logical type outside the supported set; the two differ
\* in their message only.
C8_TypeMismatchIsNotYetImplemented ==
    fn = "arithmetic"
    => /\ args.lhs.data_type # args.rhs.data_type
            => /\ result.kind = "err"
               /\ result.error = "NotYetImplemented"
       /\ (args.lhs.data_type = args.rhs.data_type
                /\ args.lhs.data_type \notin SupportedTypes)
            => /\ result.kind = "err"
               /\ result.error = "NotYetImplemented"
               /\ result.msg # "Arithmetic is currently only supported for arrays of the same logical type"

\* C8 witness: arithmetic was called on a signed and an unsigned operand of
\* equal length and returned an error.
C8_Witness ==
    /\ fn = "arithmetic"
    /\ args.lhs.data_type = "Int8"
    /\ args.rhs.data_type = "UInt8"
    /\ len(args.lhs) = len(args.rhs)
    /\ len(args.lhs) > 0
    /\ result.kind = "err"

====
